---- MODULE Spec2Model ----
(***************************************************************************)
(* JsSIP.UA (src/src/UA.js): the SIP user agent.  The engine is single     *)
(* threaded and event driven, so every handler of UA.js is one atomic      *)
(* action.  The calls a handler makes on its collaborators (request,       *)
(* Transport, Registrator, Session, Dialog, Transactions) are recorded, in *)
(* program order, in the variable out; how the handler returned is in      *)
(* result.                                                                 *)
(***************************************************************************)
EXTENDS Integers, Sequences, FiniteSets, TLC

\* ------------------------------------------------------------------ bounds
NumServers == 2
MaxWeight == 1
MaxApplicants == 1
MaxTimers == 1
MaxTransactions == 2
MaxDialogs == 2

\* ------------------------------------------------- constants of JsSIP.c
\* WS server status codes.  getNextWsServer tests the literal 2.
WS_SERVER_DISCONNECTED == 0
WS_SERVER_READY == 1
WS_SERVER_ERROR == 2
\* the literal of UA.js:515 and the initial status of UA.js:671
EXCLUDED == 2
INITIAL_SERVER_STATUS == 0

UA_STATUS_INIT == "INIT"
UA_STATUS_READY == "READY"
UA_STATUS_USER_CLOSED == "USER_CLOSED"
UA_STATUS_NOT_READY == "NOT_READY"
UA_NETWORK_ERROR == "NETWORK_ERROR"
NoError == "null"

INVITE == "INVITE"
ACK == "ACK"
OPTIONS == "OPTIONS"
BYE == "BYE"
CANCEL == "CANCEL"
MESSAGE == "MESSAGE"
NOTIFY == "NOTIFY"
INFO == "INFO"
Methods == {INVITE, ACK, OPTIONS, BYE, CANCEL, MESSAGE, NOTIFY, INFO}

\* ------------------------------------------------------- input domains
configuration_user == "alice"
Users == {"alice", "bob"}
CallIds == {"c"}
Tags == {"a", "b"}
NoTag == ""
Servers == 1..NumServers
Weights == 0..MaxWeight
ServerStatuses == {WS_SERVER_DISCONNECTED, WS_SERVER_READY, WS_SERVER_ERROR}
TransactionTypes == <<"nict", "ict", "nist", "ist">>

Requests ==
  [method : Methods, ruri_user : Users, call_id : CallIds,
   from_tag : Tags, to_tag : Tags \cup {NoTag}]

NoRequest ==
  [method |-> "", ruri_user |-> "", call_id |-> "", from_tag |-> "", to_tag |-> ""]

\* keys under which the collaborators store Sessions and Dialogs
SessionKeys == { c \o t : c \in CallIds, t \in Tags }
DialogKeys == { c \o t \o u : c \in CallIds, t \in Tags, u \in Tags }
NoKey == ""

VARIABLES
  status,              \* this.status
  error,               \* this.error
  outbound_proxy_set,  \* configuration.outbound_proxy_set: [weight, status]
  auto_register,       \* configuration.auto_register
  transport,           \* this.transport: the server of the Transport, 0 = null
  transports,          \* servers toward which a Transport has been constructed
  registrator,         \* this.registrator: "null", "unregistered", "registered"
  pub_gruu,            \* this.contact.pub_gruu is set
  sessions,            \* keys of this.sessions
  dialogs,             \* keys of this.dialogs
  applicants,          \* keys of this.applicants
  transactions,        \* this.transactions: type -> set of ids
  timers,              \* shutdown grace timers scheduled and not yet fired
  op,                  \* the handler that ran last
  request,             \* the request it was given (receiveRequest)
  result,              \* how it returned: "ok" or the exception thrown
  out,                 \* the calls it made on collaborators, in order
  raised_by,           \* the Transport given to an event handler, else 0
  picked,              \* the last value returned by getNextWsServer
  stopped              \* stop succeeded and start was not called since

engine ==
  <<status, error, outbound_proxy_set, auto_register, transport, transports,
    registrator, pub_gruu, sessions, dialogs, applicants, transactions, timers>>

vars ==
  <<status, error, outbound_proxy_set, auto_register, transport, transports,
    registrator, pub_gruu, sessions, dialogs, applicants, transactions, timers,
    op, request, result, out, raised_by, picked, stopped>>

\* ---------------------------------------------------------------- helpers
\* one call made on a collaborator
Call(ev, on, code, text) == [ev |-> ev, on |-> on, code |-> code, text |-> text]

\* every order in which a for-in loop may visit the keys of S
Orderings(S) ==
  { s \in [1..Cardinality(S) -> S] : \A i, j \in 1..Cardinality(S) : s[i] = s[j] => i = j }

\* the calls `name` made on every element of the sequence keys
CallEach(name, kind, keys) ==
  [i \in 1..Len(keys) |-> Call(name, kind \o ":" \o keys[i], 0, "")]

Replies(trace) ==
  SelectSeq(trace, LAMBDA e : e.ev \in {"reply", "reply_sl"})

RepliesWith(trace, code) ==
  SelectSeq(trace, LAMBDA e : e.ev \in {"reply", "reply_sl"} /\ e.code = code)

Events(trace, ev) ==
  SelectSeq(trace, LAMBDA e : e.ev = ev)

\* ------------------------------------------------------------------ utils
\* UA.js:102 isRegistered and the test of UA.js:381
isRegistered ==
  registrator = "registered"

\* A mutant of candidatesFrom: a lower weight replaces the candidates too.
RECURSIVE candidatesFromAnyWeight(_, _, _)
candidatesFromAnyWeight(set, idx, candidates) ==
  IF idx > Len(set) THEN candidates
  ELSE IF set[idx].status = EXCLUDED
         THEN candidatesFromAnyWeight(set, idx + 1, candidates)
  ELSE IF Len(candidates) = 0
         THEN candidatesFromAnyWeight(set, idx + 1, <<idx>>)
  ELSE IF set[idx].weight # set[candidates[1]].weight
         THEN candidatesFromAnyWeight(set, idx + 1, <<idx>>)
  ELSE candidatesFromAnyWeight(set, idx + 1, Append(candidates, idx))

\* UA.js:507-530.  The loop over outbound_proxy_set, from index idx with the
\* candidates collected so far.
RECURSIVE candidatesFrom(_, _, _)
candidatesFrom(set, idx, candidates) ==
  IF idx > Len(set) THEN candidates
  ELSE IF set[idx].status = EXCLUDED
         THEN candidatesFrom(set, idx + 1, candidates)
  ELSE IF Len(candidates) = 0
         THEN candidatesFrom(set, idx + 1, <<idx>>)
  ELSE IF set[idx].weight > set[candidates[1]].weight
         THEN candidatesFrom(set, idx + 1, <<idx>>)
  ELSE IF set[idx].weight = set[candidates[1]].weight
         THEN candidatesFrom(set, idx + 1, Append(candidates, idx))
  ELSE candidatesFrom(set, idx + 1, candidates)

\* A mutant of getNextWsServer: the status of the candidates is not looked
\* at.
getNextWsServerAnyStatus(set) ==
  { i \in DOMAIN set : \A j \in DOMAIN set : set[j].weight <= set[i].weight }

\* The values getNextWsServer can return for the pool `set`: candidates[idx]
\* with idx = floor(random * length); 0 stands for undefined (no candidate).
getNextWsServer(set) ==
  LET candidates == candidatesFrom(set, 1, <<>>)
  IN  IF Len(candidates) = 0 THEN {0}
      ELSE { candidates[i] : i \in 1..Len(candidates) }

\* UA.js:459-473
findSession(req) ==
  LET sessionIDa == req.call_id \o req.from_tag
      sessionIDb == req.call_id \o req.to_tag
  IN  IF sessionIDa \in sessions THEN sessionIDa
      ELSE IF sessionIDb \in sessions THEN sessionIDb
      ELSE NoKey

\* A mutant of findDialog: only the order of the tags of the request is
\* looked up.
findDialogOneWay(req) ==
  LET id1 == req.call_id \o req.from_tag \o req.to_tag
  IN  IF id1 \in dialogs THEN id1
      ELSE NoKey

\* UA.js:481-500
findDialog(req) ==
  LET id1 == req.call_id \o req.from_tag \o req.to_tag
      id2 == req.call_id \o req.to_tag \o req.from_tag
  IN  IF id1 \in dialogs THEN id1
      ELSE IF id2 \in dialogs THEN id2
      ELSE NoKey

\* UA.js:536-547, visiting the sessions in the order `order`
closeSessionsOnTransportError(order) ==
  CallEach("onTransportError", "session", order)
  \o (IF registrator # "null"
        THEN <<Call("onTransportClosed", "registrator", 0, "")>>
        ELSE <<>>)

\* --------------------------------------------------------- receiveRequest
\* UA.js:348-352: the request URI does not point to us
notForUs ==
  <<Call("reply_sl", "request", 404, "REASON_404")>>

\* UA.js:355: the call of Transactions.checkTransaction and what it answered
checkTransaction(known) ==
  <<Call("checkTransaction", "Transactions", 0, IF known THEN "true" ELSE "false")>>

\* A mutant of serverTransaction: an ACK gets a server transaction too.
serverTransactionForAck(method) ==
  IF method = INVITE
    THEN <<Call("new", "InviteServerTransaction", 0, "")>>
    ELSE <<Call("new", "NonInviteServerTransaction", 0, "")>>

\* UA.js:360-364
serverTransaction(method) ==
  IF method = INVITE
    THEN <<Call("new", "InviteServerTransaction", 0, "")>>
  ELSE IF method # ACK
    THEN <<Call("new", "NonInviteServerTransaction", 0, "")>>
  ELSE <<>>

\* UA.js:371-377
optionsReply(method) ==
  IF method = OPTIONS
    THEN <<Call("reply", "request", 200, "REASON_200 Allow Accept")>>
    ELSE <<>>

\* A mutant of methodSwitch: the out-of-dialog BYE has no case of its own.
methodSwitchWithoutBye(req, rtc) ==
  CASE req.method = MESSAGE ->
         <<Call("messageReceiver", "JsSIP", 0, "")>>
    [] req.method = INVITE ->
         <<Call("isWebRtcSupported", "utils", 0, IF rtc THEN "true" ELSE "false")>>
         \o (IF ~rtc THEN <<>> ELSE <<Call("new", "IncomingSession", 0, "")>>)
    [] req.method = CANCEL ->
         <<Call("findSession", "ua", 0, findSession(req))>>
         \o (IF findSession(req) # NoKey
               THEN <<Call("receiveRequest", "session:" \o findSession(req), 0, "")>>
               ELSE <<>>)
    [] req.method = ACK ->
         <<>>
    [] OTHER ->
         <<Call("reply", "request", 405, "REASON_405")>>

\* UA.js:387-419: the switch on the method of an initial request
methodSwitch(req, rtc) ==
  CASE req.method = MESSAGE ->
         <<Call("messageReceiver", "JsSIP", 0, "")>>
    [] req.method = INVITE ->
         <<Call("isWebRtcSupported", "utils", 0, IF rtc THEN "true" ELSE "false")>>
         \o (IF ~rtc THEN <<>> ELSE <<Call("new", "IncomingSession", 0, "")>>)
    [] req.method = BYE ->
         <<Call("reply", "request", 481, "REASON_481")>>
    [] req.method = CANCEL ->
         <<Call("findSession", "ua", 0, findSession(req))>>
         \o (IF findSession(req) # NoKey
               THEN <<Call("receiveRequest", "session:" \o findSession(req), 0, "")>>
               ELSE <<>>)
    [] req.method = ACK ->
         <<>>
    [] OTHER ->
         <<Call("reply", "request", 405, "REASON_405")>>

\* A mutant of initialRequest: the registration is not looked at.
initialRequestUngated(req, rtc) ==
  methodSwitch(req, rtc)

\* UA.js:380-420
initialRequest(req, rtc) ==
  IF registrator = "null" \/ (registrator # "null" /\ ~isRegistered)
    THEN <<Call("reply", "request", 410, "REASON_410")>>
    ELSE methodSwitch(req, rtc)

\* A mutant of inDialogRequest: an in-dialog request is refused while the
\* engine is not registered.
inDialogRequestGated(req) ==
  IF ~isRegistered
    THEN <<Call("reply", "request", 410, "REASON_410")>>
    ELSE <<Call("findDialog", "ua", 0, findDialog(req))>>
         \o (IF findDialog(req) # NoKey
               THEN <<Call("receiveRequest", "dialog:" \o findDialog(req), 0, "")>>
             ELSE IF req.method = NOTIFY
               THEN <<Call("findSession", "ua", 0, findSession(req))>>
                    \o (IF findSession(req) # NoKey
                          THEN <<Call("receiveRequest", "session:" \o findSession(req), 0, "")>>
                          ELSE <<Call("reply", "request", 481, "Subscription does not exist")>>)
             ELSE IF req.method # ACK
               THEN <<Call("reply", "request", 481, "REASON_481")>>
             ELSE <<>>)

\* UA.js:422-446
inDialogRequest(req) ==
  <<Call("findDialog", "ua", 0, findDialog(req))>>
  \o (IF findDialog(req) # NoKey
        THEN <<Call("receiveRequest", "dialog:" \o findDialog(req), 0, "")>>
      ELSE IF req.method = NOTIFY
        THEN <<Call("findSession", "ua", 0, findSession(req))>>
             \o (IF findSession(req) # NoKey
                   THEN <<Call("receiveRequest", "session:" \o findSession(req), 0, "")>>
                   ELSE <<Call("reply", "request", 481, "Subscription does not exist")>>)
      ELSE IF req.method # ACK
        THEN <<Call("reply", "request", 481, "REASON_481")>>
      ELSE <<>>)

\* A mutant of receiveRequestCalls: the transaction is checked and created
\* before the request URI is looked at.
receiveRequestCallsCheckFirst(req, known, rtc) ==
  IF known THEN checkTransaction(known)
  ELSE checkTransaction(known)
       \o serverTransaction(req.method)
       \o (IF req.ruri_user # configuration_user THEN notForUs
           ELSE optionsReply(req.method)
                \o (IF req.to_tag = NoTag
                      THEN initialRequest(req, rtc)
                      ELSE inDialogRequest(req)))

\* UA.js:343-447: every call receiveRequest makes, in order.  known is the
\* answer of checkTransaction, rtc the answer of isWebRtcSupported.
receiveRequestCalls(req, known, rtc) ==
  IF req.ruri_user # configuration_user THEN notForUs
  ELSE IF known THEN checkTransaction(known)
  ELSE checkTransaction(known)
       \o serverTransaction(req.method)
       \o optionsReply(req.method)
       \o (IF req.to_tag = NoTag
             THEN initialRequest(req, rtc)
             ELSE inDialogRequest(req))

receiveRequest(req, known, rtc) ==
  /\ op' = "receiveRequest"
  /\ request' = req
  /\ result' = "ok"
  /\ out' = receiveRequestCalls(req, known, rtc)
  /\ raised_by' = 0
  /\ picked' = 0
  /\ UNCHANGED stopped
  /\ UNCHANGED engine

\* ------------------------------------------------------------------- Init
\* The state a successful constructor leaves (UA.js:22-39), with the
\* configuration loadConfig accepted (UA.js:565, 667-671).
InitEngine ==
  /\ status = UA_STATUS_INIT
  /\ error = NoError
  /\ transport = 0
  /\ transports = {}
  /\ registrator = "null"
  /\ pub_gruu = FALSE
  /\ sessions = {}
  /\ dialogs = {}
  /\ applicants = {}
  /\ transactions = [t \in {"nict", "ict", "nist", "ist"} |-> {}]
  /\ timers = 0

InitGhost ==
  /\ op = "new"
  /\ request = NoRequest
  /\ result = "ok"
  /\ out = <<>>
  /\ raised_by = 0
  /\ picked = 0
  /\ stopped = FALSE

Init ==
  /\ InitEngine
  /\ InitGhost
  /\ auto_register \in BOOLEAN
  /\ outbound_proxy_set \in
       [Servers -> [weight : Weights, status : {INITIAL_SERVER_STATUS}]]

\* ------------------------------------------------------- high level API
\* what every handler other than receiveRequest leaves in the ghost variables
RanOn(t, name, how, calls, server) ==
  /\ op' = name
  /\ request' = NoRequest
  /\ result' = how
  /\ out' = calls
  /\ raised_by' = t
  /\ picked' = server
  /\ stopped' = IF name = "stop" /\ how = "ok" THEN TRUE
                ELSE IF name = "start" THEN FALSE
                ELSE stopped

Ran(name, how, calls, server) ==
  RanOn(0, name, how, calls, server)

\* UA.js:63-69.  this.transport is null until a Connected event: the call of
\* connect on it then throws a TypeError.
networkIsReady ==
  /\ IF status = UA_STATUS_NOT_READY /\ error = UA_NETWORK_ERROR
       THEN IF transport = 0
              THEN Ran("networkIsReady", "TypeError", <<>>, 0)
              ELSE Ran("networkIsReady", "ok",
                       <<Call("connect", "transport", transport, "")>>, 0)
       ELSE Ran("networkIsReady", "ok", <<>>, 0)
  /\ UNCHANGED engine

\* A mutant of register: outside READY the call is silently ignored.
registerIgnored ==
  /\ IF status = UA_STATUS_READY
       THEN IF registrator = "null"
              THEN Ran("register", "TypeError", <<>>, 0)
              ELSE Ran("register", "ok", <<Call("register", "registrator", 0, "")>>, 0)
       ELSE Ran("register", "ok", <<>>, 0)
  /\ UNCHANGED engine

\* UA.js:76-82
register ==
  /\ IF status = UA_STATUS_READY
       THEN IF registrator = "null"
              THEN Ran("register", "TypeError", <<>>, 0)
              ELSE Ran("register", "ok", <<Call("register", "registrator", 0, "")>>, 0)
       ELSE Ran("register", "NotReadyError", <<>>, 0)
  /\ UNCHANGED engine

\* UA.js:90-96
deregister(all) ==
  /\ IF status = UA_STATUS_READY
       THEN IF registrator = "null"
              THEN Ran("deregister", "TypeError", <<>>, 0)
              ELSE Ran("deregister", "ok",
                       <<Call("deregister", "registrator", 0,
                              IF all THEN "all" ELSE "")>>, 0)
       ELSE Ran("deregister", "NotReadyError", <<>>, 0)
  /\ UNCHANGED engine

\* UA.js:136-155.  rtc is the answer of isWebRtcSupported, valid tells
\* whether normalizeUri accepted the target.
call(rtc, valid) ==
  /\ IF status # UA_STATUS_READY
       THEN Ran("call", "NotReadyError", <<>>, 0)
     ELSE IF ~rtc
       THEN Ran("call", "WebRtcNotSupportedError",
                <<Call("isWebRtcSupported", "utils", 0, "false")>>, 0)
     ELSE IF ~valid
       THEN Ran("call", "InvalidTargetError",
                <<Call("isWebRtcSupported", "utils", 0, "true"),
                  Call("normalizeUri", "utils", 0, "false")>>, 0)
     ELSE Ran("call", "ok",
              <<Call("isWebRtcSupported", "utils", 0, "true"),
                Call("normalizeUri", "utils", 0, "true"),
                Call("new", "OutgoingSession", 0, "")>>, 0)
  /\ UNCHANGED engine

\* UA.js:168-182
message(valid) ==
  /\ IF status # UA_STATUS_READY
       THEN Ran("message", "NotReadyError", <<>>, 0)
     ELSE IF ~valid
       THEN Ran("message", "InvalidTargetError",
                <<Call("normalizeUri", "utils", 0, "false")>>, 0)
     ELSE Ran("message", "ok",
              <<Call("normalizeUri", "utils", 0, "true"),
                Call("new", "MessageSender", 0, "")>>, 0)
  /\ UNCHANGED engine

\* A mutant of stop: the Applicants are closed before the Sessions are
\* terminated.
stopApplicantsFirst ==
  IF status # UA_STATUS_READY
    THEN /\ Ran("stop", "NotReadyError", <<>>, 0)
         /\ UNCHANGED engine
    ELSE /\ timers < MaxTimers
         /\ \E so \in Orderings(sessions), ao \in Orderings(applicants) :
              Ran("stop", "ok",
                  (IF registrator # "null"
                     THEN <<Call("close", "registrator", 0, "")>>
                     ELSE <<>>)
                  \o CallEach("close", "applicant", ao)
                  \o CallEach("terminate", "session", so)
                  \o <<Call("setTimeout", "window", 5000, "shutdownGraceTimer")>>,
                  0)
         /\ status' = UA_STATUS_USER_CLOSED
         /\ timers' = timers + 1
         /\ UNCHANGED <<error, outbound_proxy_set, auto_register, transport,
                        transports, registrator, pub_gruu, sessions, dialogs,
                        applicants, transactions>>

\* UA.js:189-221
stop ==
  IF status # UA_STATUS_READY
    THEN /\ Ran("stop", "NotReadyError", <<>>, 0)
         /\ UNCHANGED engine
    ELSE /\ timers < MaxTimers
         /\ \E so \in Orderings(sessions), ao \in Orderings(applicants) :
              Ran("stop", "ok",
                  (IF registrator # "null"
                     THEN <<Call("close", "registrator", 0, "")>>
                     ELSE <<>>)
                  \o CallEach("terminate", "session", so)
                  \o CallEach("close", "applicant", ao)
                  \o <<Call("setTimeout", "window", 5000, "shutdownGraceTimer")>>,
                  0)
         /\ status' = UA_STATUS_USER_CLOSED
         /\ timers' = timers + 1
         /\ UNCHANGED <<error, outbound_proxy_set, auto_register, transport,
                        transports, registrator, pub_gruu, sessions, dialogs,
                        applicants, transactions>>

\* UA.js:217-220: the callback of the shutdown grace timer
shutdownGraceTimer ==
  /\ timers > 0
  /\ timers' = timers - 1
  /\ IF transport = 0
       THEN Ran("shutdownGraceTimer", "TypeError", <<>>, 0)
       ELSE Ran("shutdownGraceTimer", "ok",
                <<Call("disconnect", "transport", transport, "")>>, 0)
  /\ UNCHANGED <<status, error, outbound_proxy_set, auto_register, transport,
                 transports, registrator, pub_gruu, sessions, dialogs,
                 applicants, transactions>>

\* A mutant of start: NOT_READY is resumed as USER_CLOSED is.
startResumesNotReady ==
  IF status = UA_STATUS_INIT
    THEN \E server \in getNextWsServer(outbound_proxy_set) :
           /\ Ran("start", "ok", <<Call("new", "Transport", server, "")>>, server)
           /\ transports' = transports \cup (IF server = 0 THEN {} ELSE {server})
           /\ UNCHANGED <<status, error, outbound_proxy_set, auto_register,
                          transport, registrator, pub_gruu, sessions, dialogs,
                          applicants, transactions, timers>>
  ELSE IF status \in {UA_STATUS_USER_CLOSED, UA_STATUS_NOT_READY}
    THEN /\ status' = UA_STATUS_READY
         /\ IF transport = 0
              THEN Ran("start", "TypeError", <<>>, 0)
              ELSE Ran("start", "ok", <<Call("connect", "transport", transport, "")>>, 0)
         /\ UNCHANGED <<error, outbound_proxy_set, auto_register, transport,
                        transports, registrator, pub_gruu, sessions, dialogs,
                        applicants, transactions, timers>>
  ELSE /\ Ran("start", "ok", <<>>, 0)
       /\ UNCHANGED engine

\* A mutant of start: resuming from USER_CLOSED clears the shutdown grace
\* timer.
startClearsTimer ==
  IF status = UA_STATUS_INIT
    THEN \E server \in getNextWsServer(outbound_proxy_set) :
           /\ Ran("start", "ok", <<Call("new", "Transport", server, "")>>, server)
           /\ transports' = transports \cup (IF server = 0 THEN {} ELSE {server})
           /\ UNCHANGED <<status, error, outbound_proxy_set, auto_register,
                          transport, registrator, pub_gruu, sessions, dialogs,
                          applicants, transactions, timers>>
  ELSE IF status = UA_STATUS_USER_CLOSED
    THEN /\ status' = UA_STATUS_READY
         /\ timers' = 0
         /\ IF transport = 0
              THEN Ran("start", "TypeError", <<>>, 0)
              ELSE Ran("start", "ok",
                       <<Call("clearTimeout", "window", 0, "shutdownGraceTimer"),
                         Call("connect", "transport", transport, "")>>, 0)
         /\ UNCHANGED <<error, outbound_proxy_set, auto_register, transport,
                        transports, registrator, pub_gruu, sessions, dialogs,
                        applicants, transactions>>
  ELSE IF status = UA_STATUS_READY
    THEN /\ Ran("start", "ok", <<>>, 0)
         /\ UNCHANGED engine
  ELSE /\ Ran("start", "NotReadyError", <<>>, 0)
       /\ UNCHANGED engine

\* UA.js:229-244.  In INIT getNextWsServer always finds a candidate: the status
\* leaves INIT for NOT_READY when the last candidate is excluded.
start ==
  IF status = UA_STATUS_INIT
    THEN \E server \in getNextWsServer(outbound_proxy_set) :
           /\ Ran("start", "ok", <<Call("new", "Transport", server, "")>>, server)
           /\ transports' = transports \cup (IF server = 0 THEN {} ELSE {server})
           /\ UNCHANGED <<status, error, outbound_proxy_set, auto_register,
                          transport, registrator, pub_gruu, sessions, dialogs,
                          applicants, transactions, timers>>
  ELSE IF status = UA_STATUS_USER_CLOSED
    THEN /\ status' = UA_STATUS_READY
         /\ IF transport = 0
              THEN Ran("start", "TypeError", <<>>, 0)
              ELSE Ran("start", "ok", <<Call("connect", "transport", transport, "")>>, 0)
         /\ UNCHANGED <<error, outbound_proxy_set, auto_register, transport,
                        transports, registrator, pub_gruu, sessions, dialogs,
                        applicants, transactions, timers>>
  ELSE IF status = UA_STATUS_READY
    THEN /\ Ran("start", "ok", <<>>, 0)
         /\ UNCHANGED engine
  ELSE /\ Ran("start", "NotReadyError", <<>>, 0)
       /\ UNCHANGED engine

\* --------------------------------------------------------- event handlers
\* transport.server.status = s, for the Transport toward server t
setServerStatus(t, s) ==
  [outbound_proxy_set EXCEPT ![t].status = s]

\* A mutant of onTransportClosed: the Sessions are closed whether or not a
\* public GRUU is in use.
onTransportClosedWithoutGruuTest(t) ==
  /\ t \in transports
  /\ outbound_proxy_set' = setServerStatus(t, WS_SERVER_DISCONNECTED)
  /\ \E o1 \in Orderings(transactions["nict"]), o2 \in Orderings(transactions["ict"]),
        o3 \in Orderings(transactions["nist"]), o4 \in Orderings(transactions["ist"]),
        so \in Orderings(sessions) :
       RanOn(t, "onTransportClosed", "ok",
           CallEach("onTransportError", "nict", o1)
           \o CallEach("onTransportError", "ict", o2)
           \o CallEach("onTransportError", "nist", o3)
           \o CallEach("onTransportError", "ist", o4)
           \o closeSessionsOnTransportError(so),
           0)
  /\ UNCHANGED <<status, error, auto_register, transport, transports,
                 registrator, pub_gruu, sessions, dialogs, applicants,
                 transactions, timers>>

\* UA.js:256-275
onTransportClosed(t) ==
  /\ t \in transports
  /\ outbound_proxy_set' = setServerStatus(t, WS_SERVER_DISCONNECTED)
  /\ \E o1 \in Orderings(transactions["nict"]), o2 \in Orderings(transactions["ict"]),
        o3 \in Orderings(transactions["nist"]), o4 \in Orderings(transactions["ist"]),
        so \in Orderings(sessions) :
       RanOn(t, "onTransportClosed", "ok",
           CallEach("onTransportError", "nict", o1)
           \o CallEach("onTransportError", "ict", o2)
           \o CallEach("onTransportError", "nist", o3)
           \o CallEach("onTransportError", "ist", o4)
           \o (IF ~pub_gruu THEN closeSessionsOnTransportError(so) ELSE <<>>),
           0)
  /\ UNCHANGED <<status, error, auto_register, transport, transports,
                 registrator, pub_gruu, sessions, dialogs, applicants,
                 transactions, timers>>

\* A mutant of onTransportError: the candidate is marked as onTransportClosed
\* marks it.
onTransportErrorMarkedClosed(t) ==
  /\ t \in transports
  /\ outbound_proxy_set' = setServerStatus(t, WS_SERVER_DISCONNECTED)
  /\ \E server \in getNextWsServer(setServerStatus(t, WS_SERVER_DISCONNECTED)) :
       IF server # 0
         THEN /\ RanOn(t, "onTransportError", "ok",
                     <<Call("new", "Transport", server, "")>>, server)
              /\ transports' = transports \cup {server}
              /\ UNCHANGED <<status, error>>
         ELSE /\ \E so \in Orderings(sessions) :
                   RanOn(t, "onTransportError", "ok",
                       closeSessionsOnTransportError(so)
                       \o <<Call("emit", "ua", 0, "disconnect")>>, 0)
              /\ status' = UA_STATUS_NOT_READY
              /\ error' = UA_NETWORK_ERROR
              /\ UNCHANGED transports
  /\ UNCHANGED <<auto_register, transport, registrator, pub_gruu, sessions,
                 dialogs, applicants, transactions, timers>>

\* UA.js:284-304
onTransportError(t) ==
  /\ t \in transports
  /\ outbound_proxy_set' = setServerStatus(t, WS_SERVER_ERROR)
  /\ \E server \in getNextWsServer(setServerStatus(t, WS_SERVER_ERROR)) :
       IF server # 0
         THEN /\ RanOn(t, "onTransportError", "ok",
                     <<Call("new", "Transport", server, "")>>, server)
              /\ transports' = transports \cup {server}
              /\ UNCHANGED <<status, error>>
         ELSE /\ \E so \in Orderings(sessions) :
                   RanOn(t, "onTransportError", "ok",
                       closeSessionsOnTransportError(so)
                       \o <<Call("emit", "ua", 0, "disconnect")>>, 0)
              /\ status' = UA_STATUS_NOT_READY
              /\ error' = UA_NETWORK_ERROR
              /\ UNCHANGED transports
  /\ UNCHANGED <<auto_register, transport, registrator, pub_gruu, sessions,
                 dialogs, applicants, transactions, timers>>

\* A mutant of onTransportConnected: the error is left as it was.
onTransportConnectedKeepsError(t) ==
  /\ t \in transports
  /\ transport' = t
  /\ outbound_proxy_set' = setServerStatus(t, WS_SERVER_READY)
  /\ IF status = UA_STATUS_USER_CLOSED
       THEN /\ RanOn(t, "onTransportConnected", "ok", <<>>, 0)
            /\ UNCHANGED <<status, error, registrator>>
       ELSE /\ RanOn(t, "onTransportConnected", "ok",
                   (IF ~auto_register THEN <<>>
                    ELSE IF registrator # "null"
                      THEN <<Call("onTransportConnected", "registrator", 0, "")>>
                      ELSE <<Call("new", "Registrator", t, "")>>)
                   \o <<Call("emit", "ua", 0, "connect")>>, 0)
            /\ registrator' = IF auto_register /\ registrator = "null"
                                THEN "unregistered" ELSE registrator
            /\ status' = UA_STATUS_READY
            /\ UNCHANGED error
  /\ UNCHANGED <<auto_register, transports, pub_gruu, sessions, dialogs,
                 applicants, transactions, timers>>

\* A mutant of onTransportConnected: a closed engine is resumed as any other.
onTransportConnectedResuming(t) ==
  /\ t \in transports
  /\ transport' = t
  /\ outbound_proxy_set' = setServerStatus(t, WS_SERVER_READY)
  /\ RanOn(t, "onTransportConnected", "ok",
           (IF ~auto_register THEN <<>>
            ELSE IF registrator # "null"
              THEN <<Call("onTransportConnected", "registrator", 0, "")>>
              ELSE <<Call("new", "Registrator", t, "")>>)
           \o <<Call("emit", "ua", 0, "connect")>>, 0)
  /\ registrator' = IF auto_register /\ registrator = "null"
                      THEN "unregistered" ELSE registrator
  /\ status' = UA_STATUS_READY
  /\ error' = NoError
  /\ UNCHANGED <<auto_register, transports, pub_gruu, sessions, dialogs,
                 applicants, transactions, timers>>

\* UA.js:312-332
onTransportConnected(t) ==
  /\ t \in transports
  /\ transport' = t
  /\ outbound_proxy_set' = setServerStatus(t, WS_SERVER_READY)
  /\ IF status = UA_STATUS_USER_CLOSED
       THEN /\ RanOn(t, "onTransportConnected", "ok", <<>>, 0)
            /\ UNCHANGED <<status, error, registrator>>
       ELSE /\ RanOn(t, "onTransportConnected", "ok",
                   (IF ~auto_register THEN <<>>
                    ELSE IF registrator # "null"
                      THEN <<Call("onTransportConnected", "registrator", 0, "")>>
                      ELSE <<Call("new", "Registrator", t, "")>>)
                   \o <<Call("emit", "ua", 0, "connect")>>, 0)
            /\ registrator' = IF auto_register /\ registrator = "null"
                                THEN "unregistered" ELSE registrator
            /\ status' = UA_STATUS_READY
            /\ error' = NoError
  /\ UNCHANGED <<auto_register, transports, pub_gruu, sessions, dialogs,
                 applicants, transactions, timers>>

\* ---------------------------------------------------------- collaborators
\* The Transport, Registrator, Session, Dialog, MessageSender and transaction
\* classes are not part of UA.js.  They act on the engine between two
\* handlers: a Transport delivers its events and requests once constructed
\* (and requests only once it has connected), the others add themselves to
\* and remove themselves from the registries of the UA.
ApplicantIds == {"m1", "m2"}
TransactionIds == {"t1", "t2"}

\* the Registrator learns the answer to a REGISTER, or its binding expires
registratorAnswer ==
  /\ registrator # "null"
  /\ registrator' = IF registrator = "registered" THEN "unregistered" ELSE "registered"
  /\ Ran("collaborator", "ok", <<>>, 0)
  /\ UNCHANGED <<status, error, outbound_proxy_set, auto_register, transport,
                 transports, pub_gruu, sessions, dialogs, applicants,
                 transactions, timers>>

\* the Registrator sets ua.contact.pub_gruu from a 200 to a REGISTER
gruuChange ==
  /\ registrator = "registered"
  /\ pub_gruu' = ~pub_gruu
  /\ Ran("collaborator", "ok", <<>>, 0)
  /\ UNCHANGED <<status, error, outbound_proxy_set, auto_register, transport,
                 transports, registrator, sessions, dialogs, applicants,
                 transactions, timers>>

\* a Session stores itself in ua.sessions, or deletes itself from it
sessionChange ==
  /\ transport # 0
  /\ \E k \in SessionKeys :
       sessions' = IF k \in sessions THEN sessions \ {k} ELSE sessions \cup {k}
  /\ Ran("collaborator", "ok", <<>>, 0)
  /\ UNCHANGED <<status, error, outbound_proxy_set, auto_register, transport,
                 transports, registrator, pub_gruu, dialogs, applicants,
                 transactions, timers>>

\* a Dialog stores itself in ua.dialogs, or deletes itself from it
dialogChange ==
  /\ transport # 0
  /\ \E k \in DialogKeys :
       IF k \in dialogs
         THEN dialogs' = dialogs \ {k}
         ELSE /\ Cardinality(dialogs) < MaxDialogs
              /\ dialogs' = dialogs \cup {k}
  /\ Ran("collaborator", "ok", <<>>, 0)
  /\ UNCHANGED <<status, error, outbound_proxy_set, auto_register, transport,
                 transports, registrator, pub_gruu, sessions, applicants,
                 transactions, timers>>

\* a MessageSender stores itself in ua.applicants, or deletes itself from it
applicantChange ==
  /\ transport # 0
  /\ \E a \in ApplicantIds :
       IF a \in applicants
         THEN applicants' = applicants \ {a}
         ELSE /\ Cardinality(applicants) < MaxApplicants
              /\ applicants' = applicants \cup {a}
  /\ Ran("collaborator", "ok", <<>>, 0)
  /\ UNCHANGED <<status, error, outbound_proxy_set, auto_register, transport,
                 transports, registrator, pub_gruu, sessions, dialogs,
                 transactions, timers>>

NumTransactions ==
  Cardinality(transactions["nict"]) + Cardinality(transactions["ict"])
  + Cardinality(transactions["nist"]) + Cardinality(transactions["ist"])

\* a transaction stores itself in ua.transactions[type], or deletes itself
transactionChange ==
  /\ transport # 0
  /\ \E type \in {"nict", "ict", "nist", "ist"}, id \in TransactionIds :
       IF id \in transactions[type]
         THEN transactions' = [transactions EXCEPT ![type] = @ \ {id}]
         ELSE /\ NumTransactions < MaxTransactions
              /\ transactions' = [transactions EXCEPT ![type] = @ \cup {id}]
  /\ Ran("collaborator", "ok", <<>>, 0)
  /\ UNCHANGED <<status, error, outbound_proxy_set, auto_register, transport,
                 transports, registrator, pub_gruu, sessions, dialogs,
                 applicants, timers>>

\* ------------------------------------------------------- specifications
\* The engine: the public API, the transport events and the grace timer.
transportClosed == \E t \in DOMAIN outbound_proxy_set : onTransportClosed(t)
transportError == \E t \in DOMAIN outbound_proxy_set : onTransportError(t)
transportConnected == \E t \in DOMAIN outbound_proxy_set : onTransportConnected(t)
deregisterCall == \E all \in BOOLEAN : deregister(all)
callCall == \E rtc \in BOOLEAN, valid \in BOOLEAN : call(rtc, valid)
messageCall == \E valid \in BOOLEAN : message(valid)

\* a configuration of two candidates: a primary one and a backup of lower
\* weight
InitRanked ==
  /\ InitEngine
  /\ InitGhost
  /\ auto_register \in BOOLEAN
  /\ outbound_proxy_set =
       <<[weight |-> MaxWeight, status |-> INITIAL_SERVER_STATUS],
         [weight |-> 0, status |-> INITIAL_SERVER_STATUS]>>

Next ==
  \/ start
  \/ stop
  \/ shutdownGraceTimer
  \/ networkIsReady
  \/ register
  \/ deregisterCall
  \/ callCall
  \/ messageCall
  \/ transportClosed
  \/ transportError
  \/ transportConnected
  \/ registratorAnswer
  \/ gruuChange
  \/ sessionChange
  \/ applicantChange

Spec == InitRanked /\ [][Next]_vars

\* The engine with the timer queue of the browser: a timeout that was
\* scheduled and never cleared has its callback run.  UA.js never calls
\* clearTimeout on shutdownGraceTimer.
SpecTimer == InitRanked /\ [][Next]_vars /\ WF_vars(shutdownGraceTimer)

\* The connection management over every assignment of weights to the
\* candidates: the calls and events that touch the Transports, with no
\* Session, Applicant or GRUU.
NextPool ==
  \/ start
  \/ stop
  \/ shutdownGraceTimer
  \/ networkIsReady
  \/ transportClosed
  \/ transportError
  \/ transportConnected
  \/ registratorAnswer

SpecPool == Init /\ [][NextPool]_vars

\* The Closed event over every content of the transaction registries.
NextTransactions ==
  \/ start
  \/ transportConnected
  \/ transportClosed
  \/ registratorAnswer
  \/ gruuChange
  \/ sessionChange
  \/ transactionChange

SpecTransactions == InitRanked /\ [][NextTransactions]_vars

\* The dispatcher: requests delivered by a connected Transport, over every
\* content of the registries and every state of the registration.
requestReceived ==
  /\ transport # 0
  /\ \E req \in Requests, known \in BOOLEAN, rtc \in BOOLEAN :
       receiveRequest(req, known, rtc)

NextDispatch ==
  \/ start
  \/ transportConnected
  \/ registratorAnswer
  \/ sessionChange
  \/ dialogChange
  \/ requestReceived

SpecDispatch == InitRanked /\ [][NextDispatch]_vars

\* The failover selector alone, over every pool of NumPickServers candidates.
NumPickServers == 3

InitPick ==
  /\ InitEngine
  /\ InitGhost
  /\ auto_register = TRUE
  /\ outbound_proxy_set \in
       [1..NumPickServers -> [weight : Weights, status : ServerStatuses]]

pickNext ==
  /\ picked' \in getNextWsServer(outbound_proxy_set)
  /\ op' = "getNextWsServer"
  /\ UNCHANGED <<engine, request, result, out, raised_by, stopped>>

NextPick == pickNext

SpecPick == InitPick /\ [][NextPick]_vars

\* ================================================================ claims
\* what the last handler did, read from the calls it made
Handled == op = "receiveRequest"
ToUs == request.ruri_user = configuration_user
Retransmission ==
  Len(out) >= 1 /\ out[1] = Call("checkTransaction", "Transactions", 0, "true")
\* a request to the local user that the transaction layer did not know
Fresh == Handled /\ ToUs /\ ~Retransmission
Initial == request.to_tag = NoTag
RtcSupported ==
  \E i \in 1..Len(out) : out[i] = Call("isWebRtcSupported", "utils", 0, "true")
HandOffs ==
  SelectSeq(out, LAMBDA e : e.ev \in {"receiveRequest", "messageReceiver"})
Lookups ==
  SelectSeq(out, LAMBDA e : e.ev \in {"findSession", "findDialog"})
Created(class) ==
  SelectSeq(out, LAMBDA e : e.ev = "new" /\ e.on = class)
Reply(code, text) == Call("reply", "request", code, text)

\* C1: one invocation of receiveRequest produces at most one protocol reply,
\* reply and stateless reply counted together.
AtMostOneReply ==
  Handled => Len(Replies(out)) <= 1

\* C2: receiveRequest sends no reply to an ACK addressed to the local user
\* that is not a retransmission, whatever the remote tag, the Dialogs and
\* the registration.
NoReplyToAck ==
  (Fresh /\ request.method = ACK) => Len(Replies(out)) = 0

\* C3: for an OPTIONS request addressed to the local user that is not a
\* retransmission, receiveRequest creates the server transaction, sends the
\* 200 reply with the Allow and Accept headers, and does nothing else.
OptionsOnlyReplies200 ==
  (Fresh /\ request.method = OPTIONS) =>
      out = <<Call("checkTransaction", "Transactions", 0, "false"),
              Call("new", "NonInviteServerTransaction", 0, ""),
              Reply(200, "REASON_200 Allow Accept")>>

\* C4: a request whose target user is not the configured user gets exactly
\* one stateless 404 and nothing else: no duplicate check, no transaction,
\* no lookup, no hand-off, and the state of the engine is unchanged.
NotForUsOnly404 ==
  [][(op' = "receiveRequest" /\ request'.ruri_user # configuration_user) =>
       /\ out' = <<Call("reply_sl", "request", 404, "REASON_404")>>
       /\ result' = "ok"
       /\ UNCHANGED engine]_vars

NotForUsWitness ==
  /\ Handled
  /\ request.ruri_user = "bob"
  /\ request.method = INVITE
  /\ out = <<Call("reply_sl", "request", 404, "REASON_404")>>
  /\ registrator = "registered"
  /\ dialogs # {}
  /\ sessions # {}

\* C5: an initial INVITE to the local user, not a retransmission, received
\* while there is no Registrator or it is not registered, gets exactly one
\* reply, 410; no IncomingSession is created, nothing is handed off and no
\* registry is looked up.
InviteUnregistered410 ==
  (Fresh /\ request.method = INVITE /\ Initial /\ registrator # "registered") =>
      /\ Replies(out) = <<Reply(410, "REASON_410")>>
      /\ Created("IncomingSession") = <<>>
      /\ HandOffs = <<>>
      /\ Lookups = <<>>
      /\ result = "ok"

InviteUnregisteredWitness ==
  /\ Fresh
  /\ request.method = INVITE
  /\ Initial
  /\ registrator = "unregistered"
  /\ Replies(out) = <<Reply(410, "REASON_410")>>
  /\ sessions # {}

\* C6: a request to the local user with a remote tag, not a retransmission,
\* is routed by (Dialog found, method, Session found) alone, whatever the
\* registration: a Dialog found gets the request and there is no 481; with
\* no Dialog a NOTIFY goes to the Session found, else gets one 481
\* "Subscription does not exist"; with no Dialog any method but NOTIFY and
\* ACK gets exactly one 481 and no hand-off.  The only other reply is the
\* 200 to an OPTIONS.
InDialogRouting ==
  (Fresh /\ ~Initial) =>
    LET dialog == findDialog(request)
        session == findSession(request)
        shortcut == IF request.method = OPTIONS
                      THEN <<Reply(200, "REASON_200 Allow Accept")>> ELSE <<>>
    IN  IF dialog # NoKey
          THEN /\ HandOffs = <<Call("receiveRequest", "dialog:" \o dialog, 0, "")>>
               /\ Replies(out) = shortcut
        ELSE IF request.method = NOTIFY
          THEN IF session # NoKey
                 THEN /\ HandOffs = <<Call("receiveRequest", "session:" \o session, 0, "")>>
                      /\ Replies(out) = <<>>
                 ELSE /\ HandOffs = <<>>
                      /\ Replies(out) = <<Reply(481, "Subscription does not exist")>>
        ELSE IF request.method # ACK
          THEN /\ HandOffs = <<>>
               /\ RepliesWith(out, 481) = <<Reply(481, "REASON_481")>>
               /\ Replies(out) = shortcut \o <<Reply(481, "REASON_481")>>
        ELSE TRUE

InDialogWitness ==
  /\ Fresh
  /\ ~Initial
  /\ request.method = NOTIFY
  /\ findDialog(request) = NoKey
  /\ dialogs # {}
  /\ findSession(request) # NoKey
  /\ HandOffs = <<Call("receiveRequest", "session:" \o findSession(request), 0, "")>>
  /\ registrator = "unregistered"

\* C7: an initial request to the local user, not a retransmission, received
\* while registered, is dispatched by its method alone: MESSAGE goes to the
\* message receiver with no reply; INVITE creates an IncomingSession when
\* WebRTC is supported and is dropped with no reply otherwise; BYE gets
\* exactly one 481; CANCEL goes to the Session found, or nowhere, with no
\* reply; any other method but ACK gets exactly one 405 (the only other
\* reply being the 200 to an OPTIONS).
InitialDispatch ==
  (Fresh /\ Initial /\ registrator = "registered") =>
    LET session == findSession(request)
    IN  CASE request.method = MESSAGE ->
               /\ HandOffs = <<Call("messageReceiver", "JsSIP", 0, "")>>
               /\ Replies(out) = <<>>
          [] request.method = INVITE ->
               /\ Len(Created("IncomingSession")) = (IF RtcSupported THEN 1 ELSE 0)
               /\ Replies(out) = <<>>
               /\ HandOffs = <<>>
          [] request.method = BYE ->
               /\ Replies(out) = <<Reply(481, "REASON_481")>>
               /\ HandOffs = <<>>
          [] request.method = CANCEL ->
               /\ HandOffs = (IF session # NoKey
                                THEN <<Call("receiveRequest", "session:" \o session, 0, "")>>
                                ELSE <<>>)
               /\ Replies(out) = <<>>
          [] request.method = ACK -> TRUE
          [] OTHER ->
               /\ RepliesWith(out, 405) = <<Reply(405, "REASON_405")>>
               /\ Replies(out) =
                    (IF request.method = OPTIONS
                       THEN <<Reply(200, "REASON_200 Allow Accept")>> ELSE <<>>)
                    \o <<Reply(405, "REASON_405")>>
               /\ HandOffs = <<>>

InitialDispatchWitness ==
  /\ Fresh
  /\ Initial
  /\ registrator = "registered"
  /\ request.method = CANCEL
  /\ findSession(request) # NoKey
  /\ HandOffs = <<Call("receiveRequest", "session:" \o findSession(request), 0, "")>>
  /\ Replies(out) = <<>>

\* the number of times `c` occurs among the calls of `trace`
Count(trace, c) ==
  Len(SelectSeq(trace, LAMBDA e : e = c))

\* C8: while the status is not READY, register, deregister, call, message
\* and stop throw NotReadyError, call no collaborator and leave the status,
\* the error, the registries and the candidates unchanged.
NotReadyRejected ==
  [][(status # UA_STATUS_READY
      /\ op' \in {"register", "deregister", "call", "message", "stop"}) =>
       /\ result' = "NotReadyError"
       /\ out' = <<>>
       /\ UNCHANGED engine]_vars

NotReadyWitness ==
  /\ status = UA_STATUS_NOT_READY
  /\ op = "message"
  /\ result = "NotReadyError"
  /\ sessions # {}
  /\ registrator # "null"

\* the candidates pickNext may return for the pool `set`: 0 (none) when all
\* are excluded, else the candidates of maximal weight among the others
BestCandidates(set) ==
  LET avail == { i \in DOMAIN set : set[i].status # EXCLUDED }
  IN  IF avail = {} THEN {0}
      ELSE { i \in avail : \A j \in avail : set[j].weight <= set[i].weight }

\* C9: getNextWsServer returns none exactly when every candidate is
\* excluded; otherwise it returns a candidate that is not excluded and has
\* the maximal weight among those, and each such candidate can be returned.
PickNextIsBest ==
  /\ getNextWsServer(outbound_proxy_set) = BestCandidates(outbound_proxy_set)
  /\ op = "getNextWsServer" => picked \in BestCandidates(outbound_proxy_set)

PickNextWitness ==
  /\ op = "getNextWsServer"
  /\ picked = 3
  /\ outbound_proxy_set[1].status = EXCLUDED
  /\ outbound_proxy_set[1].weight > outbound_proxy_set[2].weight
  /\ outbound_proxy_set[2].status # EXCLUDED
  /\ outbound_proxy_set[2].weight = outbound_proxy_set[3].weight

\* C10: onTransportError marks the candidate of the failed Transport
\* excluded.  When getNextWsServer then returns a candidate, a Transport
\* toward that candidate is constructed, status and error are unchanged and
\* no disconnect is emitted.  When it returns none, every Session gets
\* onTransportError and the Registrator onTransportClosed, the status
\* becomes NOT_READY with error NETWORK_ERROR and disconnect is emitted once.
ErrorFailsOver ==
  [][op' = "onTransportError" =>
       LET t == raised_by'
           pool == outbound_proxy_set'
       IN  /\ t \in transports
           /\ pool = [outbound_proxy_set EXCEPT ![t].status = EXCLUDED]
           /\ picked' \in BestCandidates(pool)
           /\ IF picked' # 0
                THEN /\ out' = <<Call("new", "Transport", picked', "")>>
                     /\ transports' = transports \cup {picked'}
                     /\ UNCHANGED <<status, error>>
                ELSE /\ \A k \in sessions :
                          Count(out', Call("onTransportError", "session:" \o k, 0, "")) = 1
                     /\ registrator # "null" =>
                          Count(out', Call("onTransportClosed", "registrator", 0, "")) = 1
                     /\ status' = UA_STATUS_NOT_READY
                     /\ error' = UA_NETWORK_ERROR
                     /\ Count(out', Call("emit", "ua", 0, "disconnect")) = 1
                     /\ Len(Events(out', "new")) = 0]_vars

ErrorExhaustedWitness ==
  /\ op = "onTransportError"
  /\ picked = 0
  /\ status = UA_STATUS_NOT_READY
  /\ error = UA_NETWORK_ERROR
  /\ sessions # {}
  /\ registrator # "null"
  /\ Count(out, Call("emit", "ua", 0, "disconnect")) = 1

\* the positions in `trace` of the calls of `ev` on a collaborator of `kind`
Positions(trace, ev, kind) ==
  { i \in 1..Len(trace) :
      /\ trace[i].ev = ev
      /\ \E k \in {""} \cup SessionKeys \cup ApplicantIds :
           trace[i].on = (IF k = "" THEN kind ELSE kind \o ":" \o k) }

\* C11: stop called in READY closes the Registrator, when there is one,
\* before it terminates any Session; it terminates every Session exactly
\* once before it closes any Applicant; it closes every Applicant exactly
\* once; the status is then USER_CLOSED and the grace timer is scheduled,
\* by the last call stop makes.  stop makes no other call: the Transport is
\* not disconnected by stop itself.
StopInOrder ==
  [][(status = UA_STATUS_READY /\ op' = "stop") =>
       LET closes == Positions(out', "close", "registrator")
           terminates == Positions(out', "terminate", "session")
           applicantCloses == Positions(out', "close", "applicant")
           schedules == Positions(out', "setTimeout", "window")
       IN  /\ result' = "ok"
           /\ Cardinality(closes) = (IF registrator # "null" THEN 1 ELSE 0)
           /\ \A k \in sessions :
                Count(out', Call("terminate", "session:" \o k, 0, "")) = 1
           /\ Cardinality(terminates) = Cardinality(sessions)
           /\ \A a \in applicants :
                Count(out', Call("close", "applicant:" \o a, 0, "")) = 1
           /\ Cardinality(applicantCloses) = Cardinality(applicants)
           /\ \A i \in closes, j \in terminates \cup applicantCloses : i < j
           /\ \A i \in terminates, j \in applicantCloses : i < j
           /\ schedules = {Len(out')}
           /\ Len(out') = Cardinality(closes) + Cardinality(terminates)
                            + Cardinality(applicantCloses) + 1
           /\ Events(out', "disconnect") = <<>>
           /\ status' = UA_STATUS_USER_CLOSED
           /\ timers' = timers + 1
           /\ UNCHANGED <<transport, transports, outbound_proxy_set>>]_vars

StopInOrderWitness ==
  /\ op = "stop"
  /\ result = "ok"
  /\ status = UA_STATUS_USER_CLOSED
  /\ registrator # "null"
  /\ Cardinality(sessions) = 2
  /\ applicants # {}
  /\ timers = 1
  /\ out[1] = Call("close", "registrator", 0, "")
  /\ out[Len(out)] = Call("setTimeout", "window", 5000, "shutdownGraceTimer")

\* C12: every successful stop schedules one grace timer, and nothing but
\* the callback of a timer takes a scheduled timer away: no handler cancels
\* it.  Every callback takes one timer away and calls disconnect once on
\* the Transport of the engine, whatever the status and the candidates
\* have become since the stop.  While a timer is scheduled a callback
\* eventually runs.
GraceTimerAlwaysFires ==
  /\ [][(op' = "stop" /\ result' = "ok") => timers' = timers + 1]_vars
  /\ [][timers' # timers =>
          \/ op' = "stop" /\ result' = "ok" /\ timers' = timers + 1
          \/ op' = "shutdownGraceTimer" /\ timers' = timers - 1]_vars
  /\ [][op' = "shutdownGraceTimer" =>
          /\ timers' = timers - 1
          /\ transport # 0
          /\ result' = "ok"
          /\ out' = <<Call("disconnect", "transport", transport, "")>>]_vars
  /\ (timers > 0) ~> (op = "shutdownGraceTimer" /\ result = "ok")

\* the timer fired after start had resumed the engine
GraceTimerWitness ==
  /\ op = "shutdownGraceTimer"
  /\ result = "ok"
  /\ out = <<Call("disconnect", "transport", transport, "")>>
  /\ status = UA_STATUS_READY
  /\ timers = 0

\* C13: after onTransportConnected the candidate of the Transport is
\* connected and no NETWORK_ERROR is recorded.  From USER_CLOSED the status
\* stays USER_CLOSED, nothing is emitted and the Registrator is neither
\* created nor called.  From any other status the status becomes READY and
\* connect is emitted once; with auto_register the Registrator is resumed
\* when there is one and created when there is none, never both, and
\* without auto_register it is neither.
ConnectedHandled ==
  [][op' = "onTransportConnected" =>
       LET t == raised_by'
           resumes == Count(out', Call("onTransportConnected", "registrator", 0, ""))
           creates == Len(SelectSeq(out', LAMBDA e : e.ev = "new" /\ e.on = "Registrator"))
       IN  /\ t \in transports
           /\ transport' = t
           /\ outbound_proxy_set' =
                [outbound_proxy_set EXCEPT ![t].status = WS_SERVER_READY]
           /\ outbound_proxy_set'[t].status # EXCLUDED
           /\ error' = NoError
           /\ result' = "ok"
           /\ IF status = UA_STATUS_USER_CLOSED
                THEN /\ status' = UA_STATUS_USER_CLOSED
                     /\ out' = <<>>
                     /\ registrator' = registrator
                ELSE /\ status' = UA_STATUS_READY
                     /\ Events(out', "emit") = <<Call("emit", "ua", 0, "connect")>>
                     /\ resumes + creates = (IF auto_register THEN 1 ELSE 0)
                     /\ Len(out') = resumes + creates + 1
                     /\ auto_register => (creates = 1 <=> registrator = "null")
                     /\ creates = 1 => registrator' # "null"
                     /\ creates = 0 => registrator' = registrator]_vars

\* a Connected event handled by an engine the user has closed
ConnectedClosedWitness ==
  /\ op = "onTransportConnected"
  /\ status = UA_STATUS_USER_CLOSED
  /\ auto_register
  /\ registrator # "null"
  /\ out = <<>>
  /\ transport = raised_by
  /\ outbound_proxy_set[raised_by].status = WS_SERVER_READY
  /\ outbound_proxy_set[3 - raised_by].status = EXCLUDED

\* the request `req` as the other side of its dialog would send it
Reversed(req) ==
  [req EXCEPT !.from_tag = req.to_tag, !.to_tag = req.from_tag]

\* C14: for a request with call id C, from tag A and to tag B, findDialog
\* returns the Dialog registered under C A B, else the one under C B A, else
\* none: a Dialog registered under either order is found by the request
\* and by the request of the other direction.  findSession returns the
\* Session registered under C A, else the one under C B, else none: a
\* Session registered under the to tag of a request is found by it.  A
\* handler that looks up leaves the registries as they were.
LookupsIgnoreTagOrder ==
  /\ [](\A req \in Requests :
          LET cab == req.call_id \o req.from_tag \o req.to_tag
              cba == req.call_id \o req.to_tag \o req.from_tag
              ca == req.call_id \o req.from_tag
              cb == req.call_id \o req.to_tag
          IN  /\ findDialog(req) = (IF cab \in dialogs THEN cab
                                    ELSE IF cba \in dialogs THEN cba
                                    ELSE NoKey)
              /\ (cab \in dialogs \/ cba \in dialogs) =>
                    /\ findDialog(req) \in {cab, cba} \cap dialogs
                    /\ findDialog(Reversed(req)) \in {cab, cba} \cap dialogs
              /\ (findDialog(req) = NoKey) = (findDialog(Reversed(req)) = NoKey)
              /\ findSession(req) = (IF ca \in sessions THEN ca
                                     ELSE IF cb \in sessions THEN cb
                                     ELSE NoKey)
              /\ (cb \in sessions /\ ca \notin sessions) => findSession(req) = cb
              /\ (cb \in sessions) => findSession(req) \in sessions)
  /\ [][(op' = "receiveRequest" /\ Lookups' # <<>>) =>
          UNCHANGED <<sessions, dialogs>>]_vars

\* a request handed to the Dialog that is registered under the other order
\* of its tags
LookupsReversedWitness ==
  /\ Fresh
  /\ request.from_tag # request.to_tag
  /\ (request.call_id \o request.from_tag \o request.to_tag) \notin dialogs
  /\ findDialog(request) = request.call_id \o request.to_tag \o request.from_tag
  /\ Lookups = <<Call("findDialog", "ua", 0, findDialog(request))>>
  /\ HandOffs = <<Call("receiveRequest", "dialog:" \o findDialog(request), 0, "")>>

\* C15: in NOT_READY with error NETWORK_ERROR networkIsReady calls connect
\* once on the Transport of the engine and returns normally, also when no
\* Connected event was ever handled; in every other state it calls nothing.
\* It never changes the engine.
NetworkIsReadyReconnects ==
  [][op' = "networkIsReady" =>
       /\ UNCHANGED engine
       /\ result' = "ok"
       /\ IF status = UA_STATUS_NOT_READY /\ error = UA_NETWORK_ERROR
            THEN /\ transport # 0
                 /\ out' = <<Call("connect", "transport", transport, "")>>
            ELSE out' = <<>>]_vars

\* C16: start is defined in each of the four statuses.  In USER_CLOSED it
\* sets the status to READY and calls connect once on the Transport of the
\* engine.  In READY it does nothing.  In INIT it constructs a Transport
\* toward the candidate getNextWsServer returns and the status stays INIT.
\* In NOT_READY it throws NotReadyError and changes nothing.
StartIsTotal ==
  /\ [](status \in {UA_STATUS_INIT, UA_STATUS_READY, UA_STATUS_NOT_READY,
                     UA_STATUS_USER_CLOSED})
  /\ [][op' = "start" =>
          CASE status = UA_STATUS_USER_CLOSED ->
                 /\ status' = UA_STATUS_READY
                 /\ result' = "ok"
                 /\ transport # 0
                 /\ out' = <<Call("connect", "transport", transport, "")>>
                 /\ UNCHANGED <<error, outbound_proxy_set, auto_register,
                                transport, transports, registrator, pub_gruu,
                                sessions, dialogs, applicants, transactions,
                                timers>>
            [] status = UA_STATUS_READY ->
                 /\ result' = "ok"
                 /\ out' = <<>>
                 /\ UNCHANGED engine
            [] status = UA_STATUS_INIT ->
                 /\ result' = "ok"
                 /\ picked' \in BestCandidates(outbound_proxy_set)
                 /\ picked' # 0
                 /\ out' = <<Call("new", "Transport", picked', "")>>
                 /\ transports' = transports \cup {picked'}
                 /\ status' = UA_STATUS_INIT
                 /\ UNCHANGED <<error, outbound_proxy_set, auto_register,
                                transport, registrator, pub_gruu, sessions,
                                dialogs, applicants, transactions, timers>>
            [] status = UA_STATUS_NOT_READY ->
                 /\ result' = "NotReadyError"
                 /\ out' = <<>>
                 /\ UNCHANGED engine]_vars

\* the engine resumed by start after a stop
StartResumedWitness ==
  /\ op = "start"
  /\ result = "ok"
  /\ status = UA_STATUS_READY
  /\ transport # 0
  /\ out = <<Call("connect", "transport", transport, "")>>
  /\ timers = 1

\* C17: from a successful stop until the next call of start the status is
\* never READY, whatever transport events and networkIsReady calls occur.
ResumeIsExplicit ==
  stopped => status # UA_STATUS_READY

\* C18: a candidate that is excluded stays excluded through every Closed
\* and every Error event, and the status of a candidate is changed by no
\* handler but onTransportClosed, onTransportError and onTransportConnected.
ExclusionIsKept ==
  /\ [][op' \in {"onTransportClosed", "onTransportError"} =>
          \A s \in DOMAIN outbound_proxy_set :
            outbound_proxy_set[s].status = EXCLUDED =>
              outbound_proxy_set'[s].status = EXCLUDED]_vars
  /\ [][outbound_proxy_set' # outbound_proxy_set =>
          op' \in {"onTransportClosed", "onTransportError",
                   "onTransportConnected"}]_vars

\* the candidates of the pool `set` that are excluded
Excluded(set) ==
  { i \in DOMAIN set : set[i].status = EXCLUDED }

\* C19: a failover pass is a run of Error events, each reported by the
\* Transport the previous handler (start or onTransportError) constructed.
\* Each such event excludes one more candidate, one that was not excluded;
\* it constructs one Transport, toward a candidate that is not excluded, or
\* none when every candidate is excluded, and then the status is NOT_READY
\* with error NETWORK_ERROR.  The excluded candidates grow by one at each
\* event of the pass, so a pass over n candidates has at most n events and
\* selects no candidate twice.
FailoverIsOnePass ==
  /\ [][(op \in {"start", "onTransportError"} /\ picked # 0
         /\ op' = "onTransportError" /\ raised_by' = picked) =>
          /\ picked \notin Excluded(outbound_proxy_set)
          /\ Excluded(outbound_proxy_set') =
               Excluded(outbound_proxy_set) \cup {picked}
          /\ Cardinality(Excluded(outbound_proxy_set')) =
               Cardinality(Excluded(outbound_proxy_set)) + 1
          /\ picked' \notin Excluded(outbound_proxy_set')
          /\ (picked' = 0) = (Excluded(outbound_proxy_set') = DOMAIN outbound_proxy_set)
          /\ IF picked' # 0
               THEN /\ out' = <<Call("new", "Transport", picked', "")>>
                    /\ UNCHANGED <<status, error>>
               ELSE /\ Events(out', "new") = <<>>
                    /\ status' = UA_STATUS_NOT_READY
                    /\ error' = UA_NETWORK_ERROR]_vars
  /\ [](Excluded(outbound_proxy_set) = DOMAIN outbound_proxy_set =>
          status = UA_STATUS_NOT_READY /\ error = UA_NETWORK_ERROR)

\* the end of a pass that began in INIT: every candidate failed in turn and
\* no Connected event was ever handled
FailoverExhaustedWitness ==
  /\ op = "onTransportError"
  /\ picked = 0
  /\ transport = 0
  /\ transports = DOMAIN outbound_proxy_set
  /\ Excluded(outbound_proxy_set) = DOMAIN outbound_proxy_set
  /\ outbound_proxy_set[1].weight = outbound_proxy_set[2].weight
  /\ status = UA_STATUS_NOT_READY
  /\ error = UA_NETWORK_ERROR

\* C20: onTransportClosed leaves the status and the error unchanged, emits
\* nothing, constructs no Transport and calls neither connect nor
\* disconnect; the candidate of the Transport gets a status that is neither
\* connected nor excluded.  Every Session gets onTransportError once, and
\* the Registrator onTransportClosed once, when no public GRUU is set; none
\* of them is called when one is set.
ClosedIsNotTerminal ==
  [][op' = "onTransportClosed" =>
       LET t == raised_by'
           toRegistrator == Count(out', Call("onTransportClosed", "registrator", 0, ""))
       IN  /\ t \in transports
           /\ result' = "ok"
           /\ UNCHANGED <<status, error, transport, transports>>
           /\ Events(out', "emit") = <<>>
           /\ Events(out', "new") = <<>>
           /\ Events(out', "connect") = <<>>
           /\ Events(out', "disconnect") = <<>>
           /\ outbound_proxy_set' =
                [outbound_proxy_set EXCEPT ![t].status = WS_SERVER_DISCONNECTED]
           /\ outbound_proxy_set'[t].status \notin {WS_SERVER_READY, EXCLUDED}
           /\ \A k \in sessions :
                Count(out', Call("onTransportError", "session:" \o k, 0, ""))
                  = (IF pub_gruu THEN 0 ELSE 1)
           /\ toRegistrator = (IF ~pub_gruu /\ registrator # "null" THEN 1 ELSE 0)
           /\ Len(out') = NumTransactions + toRegistrator
                            + (IF pub_gruu THEN 0 ELSE Cardinality(sessions))]_vars

\* a Closed event with live Sessions that a public GRUU keeps alive
ClosedWithGruuWitness ==
  /\ op = "onTransportClosed"
  /\ pub_gruu
  /\ sessions # {}
  /\ registrator # "null"
  /\ status = UA_STATUS_READY
  /\ outbound_proxy_set[raised_by].status = WS_SERVER_DISCONNECTED
  /\ out = <<>>

\* C21: onTransportClosed calls onTransportError exactly once on every
\* client transaction (nict and ict) and never on a server transaction
\* (nist and ist).
ClosedNotifiesClientTransactions ==
  [][op' = "onTransportClosed" =>
       /\ \A type \in {"nict", "ict"} : \A id \in transactions[type] :
            Count(out', Call("onTransportError", type \o ":" \o id, 0, "")) = 1
       /\ \A type \in {"nist", "ist"} : \A id \in TransactionIds :
            Count(out', Call("onTransportError", type \o ":" \o id, 0, "")) = 0]_vars

\* the positions in the calls of the last handler of the server
\* transactions it created, and of its replies, lookups and hand-offs
TransactionsCreated ==
  { i \in 1..Len(out) :
      /\ out[i].ev = "new"
      /\ out[i].on \in {"InviteServerTransaction", "NonInviteServerTransaction"} }

Reactions ==
  { i \in 1..Len(out) :
      \/ out[i].ev \in {"reply", "reply_sl", "findSession", "findDialog",
                         "receiveRequest", "messageReceiver"}
      \/ out[i].ev = "new" /\ out[i].on = "IncomingSession" }

\* C22: for a request to the local user that checkTransaction knows,
\* receiveRequest creates no transaction, replies nothing, looks up nothing
\* and hands the request to nobody.  For one it does not know, it creates
\* exactly one server transaction unless the method is ACK, and none for
\* an ACK; the transaction is an InviteServerTransaction exactly for an
\* INVITE; it is created before every reply, lookup and hand-off.
TransactionRule ==
  (Handled /\ ToUs) =>
    IF Retransmission
      THEN /\ out = <<Call("checkTransaction", "Transactions", 0, "true")>>
           /\ TransactionsCreated = {}
           /\ Reactions = {}
      ELSE /\ out[1] = Call("checkTransaction", "Transactions", 0, "false")
           /\ Cardinality(TransactionsCreated) = (IF request.method = ACK THEN 0 ELSE 1)
           /\ \A i \in TransactionsCreated :
                /\ (out[i].on = "InviteServerTransaction") = (request.method = INVITE)
                /\ \A j \in Reactions : i < j
           /\ Replies(out) = SelectSeq(out, LAMBDA e : e.ev = "reply")

\* an INVITE that was not known: its transaction precedes the new Session
TransactionRuleWitness ==
  /\ Fresh
  /\ request.method = INVITE
  /\ TransactionsCreated = {2}
  /\ out[2] = Call("new", "InviteServerTransaction", 0, "")
  /\ Len(Created("IncomingSession")) = 1
  /\ Reactions # {}

\* C23: the error is NETWORK_ERROR exactly when the status is NOT_READY and
\* is null in INIT, READY and USER_CLOSED; in READY and USER_CLOSED the
\* engine has a Transport; a status that has left INIT never is INIT again.
StatusErrorTransportAgree ==
  /\ [](/\ (error = UA_NETWORK_ERROR) = (status = UA_STATUS_NOT_READY)
        /\ status \in {UA_STATUS_INIT, UA_STATUS_READY, UA_STATUS_USER_CLOSED} =>
             error = NoError
        /\ error \in {NoError, UA_NETWORK_ERROR}
        /\ status \in {UA_STATUS_READY, UA_STATUS_USER_CLOSED} => transport # 0)
  /\ [][status # UA_STATUS_INIT => status' # UA_STATUS_INIT]_vars

\* an engine that had connected, was closed by the user and then lost
\* every candidate
NotReadyAfterClosedWitness ==
  /\ status = UA_STATUS_NOT_READY
  /\ error = UA_NETWORK_ERROR
  /\ transport # 0
  /\ stopped
  /\ op = "networkIsReady"
  /\ out = <<Call("connect", "transport", transport, "")>>

====
